---------------------------- MODULE Spec2Model ----------------------------
(***************************************************************************)
(* Model of the C/C++ lexer and shallow syntax checker of parserTask.py:    *)
(* Lexer.tokenize (ordered, first-match regular-expression dispatch over    *)
(* the lines of the source text) and Parser (comment filter, consume,       *)
(* parse with its three diagnostic passes).                                 *)
(*                                                                          *)
(* Text is a sequence of one-character strings.  A token is the record      *)
(* [type, value, line, col] of class Token.  A diagnostic, which the code   *)
(* builds with an f-string, is the record of the fields the f-string        *)
(* interpolates, tagged with the message it belongs to.                     *)
(***************************************************************************)
EXTENDS Integers, Sequences, FiniteSets

VARIABLES
    code,      \* the source text handed to Lexer.tokenize
    tokens,    \* the list Lexer.tokenize returned
    ptokens,   \* Parser.tokens
    pos,       \* Parser.pos
    errors,    \* Parser.errors
    result,    \* the value the last call of Parser.parse returned
    before,    \* Parser.errors at the entry of the last call of Parser.parse
    last       \* the last operation that ran

vars == <<code, tokens, ptokens, pos, errors, result, before, last>>

----------------------------------------------------------------------------
(* Bounds of the model: the lengths of the texts and token lists drawn, the *)
(* length of Parser.errors up to which consume() may still append to it,    *)
(* and the number of tokens placed on one line of a drawn token list.       *)

MaxCodeLen == 4

MaxCommentLen == 6

MaxTokens == 4

MaxParserTokens == 3

MaxErrors == 1

TokensPerLine == 2

----------------------------------------------------------------------------
(* Sequences and characters.                                                *)

Max(S) == CHOOSE x \in S : \A y \in S : y <= x

Min(S) == CHOOSE x \in S : \A y \in S : x <= y

At(s, i) == IF i >= 1 /\ i <= Len(s) THEN s[i] ELSE ""

Drop(s, n) == SubSeq(s, n + 1, Len(s))

StringsOver(A, n) == UNION { [1..k -> A] : k \in 0..n }

Digits == {"0", "1", "2", "3", "4", "5", "6", "7", "8", "9"}

Letters ==
    {"a", "b", "c", "d", "e", "f", "g", "h", "i", "j", "k", "l", "m",
     "n", "o", "p", "q", "r", "s", "t", "u", "v", "w", "x", "y", "z",
     "A", "B", "C", "D", "E", "F", "G", "H", "I", "J", "K", "L", "M",
     "N", "O", "P", "Q", "R", "S", "T", "U", "V", "W", "X", "Y", "Z", "_"}

OperatorChars == {"+", "-", "*", "/", "%", "=", "!", "<", ">", "&", "|", "^", "~"}

SpaceChars == {" ", "\t", "\n", "\r", "\f"}

IsDigit(c) == c \in Digits

(* \w over the ASCII characters the model draws *)
IsWord(c) == c \in Letters \cup Digits

IsSpace(c) == c \in SpaceChars

(* \b at the place before index e of s: exactly one side is a word character *)
Boundary(s, e) == IsWord(At(s, e - 1)) # IsWord(At(s, e))

RECURSIVE RunLen(_, _, _)
RunLen(s, p, C) ==
    IF p <= Len(s) /\ s[p] \in C THEN 1 + RunLen(s, p + 1, C) ELSE 0

----------------------------------------------------------------------------
(* The static vocabularies of Lexer.__init__.                               *)

keywords ==
    { <<"a","u","t","o">>, <<"b","r","e","a","k">>, <<"c","a","s","e">>, 
      <<"c","h","a","r">>, <<"c","o","n","s","t">>, 
      <<"c","o","n","t","i","n","u","e">>, <<"d","e","f","a","u","l","t">>, 
      <<"d","o">>, <<"d","o","u","b","l","e">>, <<"e","l","s","e">>, 
      <<"e","n","u","m">>, <<"e","x","t","e","r","n">>, 
      <<"f","l","o","a","t">>, <<"f","o","r">>, <<"g","o","t","o">>, 
      <<"i","f">>, <<"i","n","t">>, <<"l","o","n","g">>, 
      <<"r","e","g","i","s","t","e","r">>, <<"r","e","t","u","r","n">>, 
      <<"s","h","o","r","t">>, <<"s","i","g","n","e","d">>, 
      <<"s","i","z","e","o","f">>, <<"s","t","a","t","i","c">>, 
      <<"s","t","r","u","c","t">>, <<"s","w","i","t","c","h">>, 
      <<"t","y","p","e","d","e","f">>, <<"u","n","i","o","n">>, 
      <<"u","n","s","i","g","n","e","d">>, <<"v","o","i","d">>, 
      <<"v","o","l","a","t","i","l","e">>, <<"w","h","i","l","e">>, 
      <<"c","l","a","s","s">>, <<"n","a","m","e","s","p","a","c","e">>, 
      <<"u","s","i","n","g">>, <<"p","u","b","l","i","c">>, 
      <<"p","r","i","v","a","t","e">>, 
      <<"p","r","o","t","e","c","t","e","d">>, 
      <<"v","i","r","t","u","a","l">>, <<"b","o","o","l">>, 
      <<"t","r","u","e">>, <<"f","a","l","s","e">>, <<"n","e","w">>, 
      <<"d","e","l","e","t","e">>, <<"t","h","i","s">>, <<"t","r","y">>, 
      <<"c","a","t","c","h">>, <<"t","h","r","o","w">> }

datatypes ==
    { <<"i","n","t">>, <<"f","l","o","a","t">>, <<"d","o","u","b","l","e">>, 
      <<"c","h","a","r">>, <<"v","o","i","d">>, <<"l","o","n","g">>, 
      <<"s","h","o","r","t">>, <<"u","n","s","i","g","n","e","d">>, 
      <<"s","i","g","n","e","d">>, <<"b","o","o","l">>, 
      <<"s","t","r","i","n","g">> }

operators ==
    { <<"+">>, <<"-">>, <<"*">>, <<"/">>, <<"%">>, <<"=">>, <<"=","=">>, 
      <<"!","=">>, <<"<">>, <<">">>, <<"<","=">>, <<">","=">>, <<"&","&">>, 
      <<"|","|">>, <<"!">>, <<"&">>, <<"|">>, <<"^">>, <<"~">>, <<"<","<">>, 
      <<">",">">>, <<"+","+">>, <<"-","-">>, <<"+","=">>, <<"-","=">>, 
      <<"*","=">>, <<"/","=">>, <<"%","=">>, <<"&","=">>, <<"|","=">>, 
      <<"^","=">>, <<"-",">">>, <<".">>, <<":",":">> }

----------------------------------------------------------------------------
(* Lexer.token_patterns: for each regular expression, the length of the     *)
(* match re.match finds at the start of s (a line's remainder, so s holds   *)
(* no newline), 0 when there is none.  No pattern matches the empty string. *)

(* #\s*\w+.*  *)
MatchPreprocessor(s) ==
    LET w == 2 + RunLen(s, 2, SpaceChars)
    IN  IF At(s, 1) = "#" /\ IsWord(At(s, w)) THEN Len(s) ELSE 0

(* //.*  *)
MatchLineComment(s) ==
    IF At(s, 1) = "/" /\ At(s, 2) = "/" THEN Len(s) ELSE 0

(* /\*[\s\S]*?\*/  : lazy, so it ends at the first following star-slash *)
MatchBlockComment(s) ==
    LET ends == { k \in 3..Len(s) : s[k] = "*" /\ At(s, k + 1) = "/" }
    IN  IF At(s, 1) = "/" /\ At(s, 2) = "*" /\ ends # {}
        THEN Min(ends) + 1 ELSE 0

(* "(?:[^"\\]|\\.)*"  : the index of the closing quote from index p on *)
RECURSIVE StringEnd(_, _)
StringEnd(s, p) ==
    IF p > Len(s) THEN 0
    ELSE IF s[p] = "\"" THEN p
    ELSE IF s[p] = "\\" THEN (IF p + 1 <= Len(s) THEN StringEnd(s, p + 2) ELSE 0)
    ELSE StringEnd(s, p + 1)

MatchString(s) ==
    IF At(s, 1) = "\"" THEN StringEnd(s, 2) ELSE 0

(* '(?:[^'\\]|\\.)'  *)
MatchChar(s) ==
    IF At(s, 1) # "'" THEN 0
    ELSE IF At(s, 2) = "\\"
         THEN (IF Len(s) >= 4 /\ s[4] = "'" THEN 4 ELSE 0)
    ELSE IF Len(s) >= 3 /\ s[2] # "'" /\ s[3] = "'" THEN 3
    ELSE 0

(* \b\d+\.?\d*([eE][+-]?\d+)?\b : the regular expression engine tries, in    *)
(* this order, the longest \d+, the dot taken, the longest \d*, the          *)
(* exponent taken, the sign taken, the longest exponent digits, and takes    *)
(* the first combination after which \b holds.  Each operator gives the      *)
(* match length for the part of the pattern from index c on, 0 for none.     *)
NumberExponent(s, c) ==
    LET d  == IF At(s, c + 1) \in {"+", "-"} THEN c + 2 ELSE c + 1
        ok == { n \in 1..RunLen(s, d, Digits) : Boundary(s, d + n) }
    IN  IF At(s, c) \in {"e", "E"} /\ ok # {} THEN d + Max(ok) - 1 ELSE 0

NumberAfterFraction(s, c) ==
    IF NumberExponent(s, c) > 0 THEN NumberExponent(s, c)
    ELSE IF Boundary(s, c) THEN c - 1
    ELSE 0

NumberFraction(s, b) ==
    LET ok == { n \in 0..RunLen(s, b, Digits) : NumberAfterFraction(s, b + n) > 0 }
    IN  IF ok # {} THEN NumberAfterFraction(s, b + Max(ok)) ELSE 0

NumberAfterInteger(s, a) ==
    IF At(s, a) = "." /\ NumberFraction(s, a + 1) > 0
    THEN NumberFraction(s, a + 1)
    ELSE NumberFraction(s, a)

MatchNumber(s) ==
    LET ok == { n \in 1..RunLen(s, 1, Digits) : NumberAfterInteger(s, n + 1) > 0 }
    IN  IF ok # {} THEN NumberAfterInteger(s, Max(ok) + 1) ELSE 0

(* \b[a-zA-Z_][a-zA-Z0-9_]*\b  *)
MatchIdentifier(s) ==
    LET ok == { n \in 1..RunLen(s, 1, Letters \cup Digits) : Boundary(s, n + 1) }
    IN  IF At(s, 1) \in Letters /\ ok # {} THEN Max(ok) ELSE 0

(* [+\-*/%=!<>&|^~]{1,2}  : greedy, two characters of the class when there *)
(* are two, whether or not they form an operator of Lexer.operators        *)
MatchOperator(s) ==
    IF At(s, 1) \in OperatorChars
    THEN (IF At(s, 2) \in OperatorChars THEN 2 ELSE 1)
    ELSE 0

MatchLiteral(s, lit) ==
    IF Len(s) >= Len(lit) /\ SubSeq(s, 1, Len(lit)) = lit THEN Len(lit) ELSE 0

(* \s+  *)
MatchWhitespace(s) == RunLen(s, 1, SpaceChars)

(* The list, in the order of the source: <<token type, match length at s>>. *)
token_patterns(s) ==
    << <<"PREPROCESSOR", MatchPreprocessor(s)>>,
       <<"COMMENT",      MatchLineComment(s)>>,
       <<"COMMENT",      MatchBlockComment(s)>>,
       <<"STRING",       MatchString(s)>>,
       <<"CHAR",         MatchChar(s)>>,
       <<"NUMBER",       MatchNumber(s)>>,
       <<"IDENTIFIER",   MatchIdentifier(s)>>,
       <<"OPERATOR",     MatchOperator(s)>>,
       <<"OPERATOR",     MatchLiteral(s, <<":", ":">>)>>,
       <<"OPERATOR",     MatchLiteral(s, <<"-", ">">>)>>,
       <<"SEMICOLON",    MatchLiteral(s, <<";">>)>>,
       <<"COMMA",        MatchLiteral(s, <<",">>)>>,
       <<"LPAREN",       MatchLiteral(s, <<"(">>)>>,
       <<"RPAREN",       MatchLiteral(s, <<")">>)>>,
       <<"LBRACE",       MatchLiteral(s, <<"{">>)>>,
       <<"RBRACE",       MatchLiteral(s, <<"}">>)>>,
       <<"LBRACKET",     MatchLiteral(s, <<"[">>)>>,
       <<"RBRACKET",     MatchLiteral(s, <<"]">>)>>,
       <<"WHITESPACE",   MatchWhitespace(s)>> >>

----------------------------------------------------------------------------
(* Lexer.tokenize                                                           *)

Token(type, value, line, col) ==
    [type |-> type, value |-> value, line |-> line, col |-> col]

(* code.split('\n') *)
RECURSIVE SplitLines(_)
SplitLines(text) ==
    LET nl == { i \in 1..Len(text) : text[i] = "\n" }
    IN  IF nl = {} THEN <<text>>
        ELSE <<SubSeq(text, 1, Min(nl) - 1)>> \o SplitLines(Drop(text, Min(nl)))

(* Classify keywords and datatypes *)
Classify(type, value) ==
    IF type = "IDENTIFIER" /\ (value \in keywords \/ value \in datatypes)
    THEN "KEYWORD" ELSE type

(* Variants of UnknownToken: the character passed over without a token (as  *)
(* the MISMATCH branch of scannerTask.tokenize does), and the 0-based       *)
(* column recorded in place of col + 1.                                     *)
UnknownTokenDropped(line, line_num, col) == <<>>

UnknownTokenZeroBased(line, line_num, col) ==
    <<Token("UNKNOWN", <<line[col + 1]>>, line_num, col)>>

(* if not matched: one UNKNOWN token of the character at col *)
UnknownToken(line, line_num, col) ==
    <<Token("UNKNOWN", <<line[col + 1]>>, line_num, col + 1)>>

(* the while loop over one line, from the 0-based column col on *)
RECURSIVE ScanLine(_, _, _)
ScanLine(line, line_num, col) ==
    IF col >= Len(line) THEN <<>>
    ELSE
      LET rest == Drop(line, col)
          pats == token_patterns(rest)
          hit  == { k \in 1..Len(pats) : pats[k][2] > 0 }
      IN  IF hit = {}
          THEN UnknownToken(line, line_num, col) \o ScanLine(line, line_num, col + 1)
          ELSE
            LET k     == Min(hit)
                value == SubSeq(rest, 1, pats[k][2])
                type  == Classify(pats[k][1], value)
            IN  (IF type # "WHITESPACE"
                 THEN <<Token(type, value, line_num, col + 1)>> ELSE <<>>)
                \o ScanLine(line, line_num, col + Len(value))

RECURSIVE ScanLines(_, _)
ScanLines(lines, line_num) ==
    IF line_num > Len(lines) THEN <<>>
    ELSE ScanLine(lines[line_num], line_num, 0) \o ScanLines(lines, line_num + 1)

tokenize(text) == ScanLines(SplitLines(text), 1)

----------------------------------------------------------------------------
(* Parser                                                                   *)

(* Parser.__init__: self.tokens, the tokens that are not comments *)
RECURSIVE FilterComments(_)
FilterComments(ts) ==
    IF ts = <<>> THEN <<>>
    ELSE (IF Head(ts).type # "COMMENT" THEN <<Head(ts)>> ELSE <<>>)
         \o FilterComments(Tail(ts))

(* the diagnostics, one constructor per f-string of the source *)
ExpectedError(expected_type, token) ==
    [kind |-> "Expected", expected |-> expected_type, got |-> token.type,
     line |-> token.line]

UnknownError(token) ==
    [kind |-> "Unknown token", value |-> token.value, line |-> token.line,
     col |-> token.col]

UnmatchedError(token) ==
    [kind |-> "Unmatched closing delimiter", value |-> token.value,
     line |-> token.line]

MismatchedError(open_token, token) ==
    [kind |-> "Mismatched delimiters", open_value |-> open_token.value,
     open_line |-> open_token.line, value |-> token.value, line |-> token.line]

UnclosedError(token) ==
    [kind |-> "Unclosed delimiter", value |-> token.value, line |-> token.line]

MissingSemicolonError(token) ==
    [kind |-> "Missing semicolon", value |-> token.value, line |-> token.line]

(* parse: Check for unknown tokens *)
RECURSIVE UnknownErrors(_)
UnknownErrors(ts) ==
    IF ts = <<>> THEN <<>>
    ELSE (IF Head(ts).type = "UNKNOWN" THEN <<UnknownError(Head(ts))>> ELSE <<>>)
         \o UnknownErrors(Tail(ts))

(* check_balanced_delimiters: pairs, keyed by the opening token type *)
Openers == {"LPAREN", "LBRACE", "LBRACKET"}

Closers == {"RPAREN", "RBRACE", "RBRACKET"}

(* Variant of pairs: the closers of brace and bracket exchanged. *)
pairs_crossed(open_type) ==
    CASE open_type = "LPAREN"   -> "RPAREN"
      [] open_type = "LBRACE"   -> "RBRACKET"
      [] open_type = "LBRACKET" -> "RBRACE"

pairs(open_type) ==
    CASE open_type = "LPAREN"   -> "RPAREN"
      [] open_type = "LBRACE"   -> "RBRACE"
      [] open_type = "LBRACKET" -> "RBRACKET"

(* Variant of DelimStep: a mismatched closer leaves the opener on the stack. *)
DelimStepKeepOnMismatch(st, token) ==
    IF token.type \in Openers
    THEN [st EXCEPT !.stack = Append(@, token)]
    ELSE IF token.type \in Closers
    THEN IF st.stack = <<>>
         THEN [st EXCEPT !.errs = Append(@, UnmatchedError(token))]
         ELSE LET open_token == st.stack[Len(st.stack)]
              IN  IF pairs(open_token.type) # token.type
                  THEN [st EXCEPT !.errs = Append(@, MismatchedError(open_token, token))]
                  ELSE [st EXCEPT !.stack = SubSeq(@, 1, Len(@) - 1)]
    ELSE st

(* one iteration of the loop over self.tokens; st is [stack, errs], the    *)
(* stack a sequence of opening tokens with its top at the end              *)
DelimStep(st, token) ==
    IF token.type \in Openers
    THEN [st EXCEPT !.stack = Append(@, token)]
    ELSE IF token.type \in Closers
    THEN IF st.stack = <<>>
         THEN [st EXCEPT !.errs = Append(@, UnmatchedError(token))]
         ELSE LET open_token == st.stack[Len(st.stack)]
              IN  [stack |-> SubSeq(st.stack, 1, Len(st.stack) - 1),
                   errs  |-> IF pairs(open_token.type) # token.type
                             THEN Append(st.errs, MismatchedError(open_token, token))
                             ELSE st.errs]
    ELSE st

(* the loop over the first n tokens *)
RECURSIVE DelimScan(_, _)
DelimScan(ts, n) ==
    IF n = 0 THEN [stack |-> <<>>, errs |-> <<>>]
    ELSE DelimStep(DelimScan(ts, n - 1), ts[n])

(* Variant of UnclosedErrors: the stack reported in pop order, top first. *)
UnclosedErrorsPopOrder(stack) ==
    [i \in 1..Len(stack) |-> UnclosedError(stack[Len(stack) + 1 - i])]

(* for open_type, token in stack: from the base of the stack up *)
UnclosedErrors(stack) ==
    [i \in 1..Len(stack) |-> UnclosedError(stack[i])]

check_balanced_delimiters(ts) ==
    LET st == DelimScan(ts, Len(ts))
    IN  st.errs \o UnclosedErrors(st.stack)

(* check_statement_structure: the index j at which the inner while loop    *)
(* stops, Len(ts) + 1 when it runs off the end (0-based len(self.tokens))  *)
RECURSIVE ScanForward(_, _)
ScanForward(ts, j) ==
    IF j > Len(ts) THEN j
    ELSE IF ts[j].type \in {"SEMICOLON", "LBRACE", "RBRACE"} THEN j
    ELSE ScanForward(ts, j + 1)

(* Variant of MissingSemicolon: no exemption for an opening brace. *)
MissingSemicolonAtAnyBrace(ts, j) ==
    /\ j <= Len(ts)
    /\ ts[j].type # "SEMICOLON"

(* if not found_semicolon and j < len(self.tokens):                        *)
(*     if self.tokens[j].type != TokenType.LBRACE                           *)
MissingSemicolon(ts, j) ==
    /\ j <= Len(ts)
    /\ ts[j].type # "SEMICOLON"
    /\ ts[j].type # "LBRACE"

IsStatementKeyword(token) ==
    /\ token.type = "KEYWORD"
    /\ token.value \in { <<"r","e","t","u","r","n">>, <<"b","r","e","a","k">>,
                         <<"c","o","n","t","i","n","u","e">> }

RECURSIVE StatementErrors(_, _)
StatementErrors(ts, i) ==
    IF i > Len(ts) THEN <<>>
    ELSE IF ts[i].type = "PREPROCESSOR" THEN StatementErrors(ts, i + 1)
    ELSE (IF IsStatementKeyword(ts[i]) /\ MissingSemicolon(ts, ScanForward(ts, i + 1))
          THEN <<MissingSemicolonError(ts[i])>> ELSE <<>>)
         \o StatementErrors(ts, i + 1)

check_statement_structure(ts) == StatementErrors(ts, 1)

(* Variant of parse_reset: the list left as it was at the entry of parse. *)
parse_reset_missing == errors

(* parse: self.errors = [] *)
parse_reset == <<>>

parse_errors(ts) ==
    parse_reset \o UnknownErrors(ts) \o check_balanced_delimiters(ts)
                \o check_statement_structure(ts)

----------------------------------------------------------------------------
(* The inputs the model draws.                                              *)

Alphabet == {"a", "1", "=", "-", "@", " ", "\n", "("}

CommentAlphabet == {"/", "*", "\n", "("}

KeywordAlphabet == {"d", "o", " ", ";"}

CodeInputs ==
    StringsOver(Alphabet, MaxCodeLen)
        \cup StringsOver(CommentAlphabet, MaxCommentLen)
        \cup StringsOver(KeywordAlphabet, MaxCodeLen)

Lexeme(type, value) == [type |-> type, value |-> value]

DelimLexemes ==
    { Lexeme("LPAREN", <<"(">>), Lexeme("RPAREN", <<")">>),
      Lexeme("LBRACE", <<"{">>), Lexeme("RBRACE", <<"}">>),
      Lexeme("LBRACKET", <<"[">>), Lexeme("RBRACKET", <<"]">>),
      Lexeme("IDENTIFIER", <<"x">>) }

StatementLexemes ==
    { Lexeme("KEYWORD", <<"r","e","t","u","r","n">>),
      Lexeme("KEYWORD", <<"b","r","e","a","k">>),
      Lexeme("IDENTIFIER", <<"x">>),
      Lexeme("SEMICOLON", <<";">>),
      Lexeme("LBRACE", <<"{">>), Lexeme("RBRACE", <<"}">>),
      Lexeme("PREPROCESSOR", <<"#","x">>) }

MixedLexemes ==
    { Lexeme("UNKNOWN", <<"@">>), Lexeme("COMMENT", <<"/","/">>),
      Lexeme("LPAREN", <<"(">>), Lexeme("RBRACE", <<"}">>),
      Lexeme("KEYWORD", <<"c","o","n","t","i","n","u","e">>),
      Lexeme("SEMICOLON", <<";">>) }

(* the k-th lexeme of a list as a token, TokensPerLine tokens to a line *)
Place(lexs) ==
    [k \in 1..Len(lexs) |->
        Token(lexs[k].type, lexs[k].value,
              1 + (k - 1) \div TokensPerLine,
              1 + 2 * ((k - 1) % TokensPerLine))]

TokenInputs ==
    { Place(lexs) : lexs \in StringsOver(DelimLexemes, MaxTokens)
                          \cup StringsOver(StatementLexemes, MaxTokens)
                          \cup StringsOver(MixedLexemes, MaxTokens) }

ParserInputs ==
    { Place(lexs) : lexs \in StringsOver(MixedLexemes, MaxParserTokens) }

ExpectedTypes == {"None", "SEMICOLON"}

----------------------------------------------------------------------------
(* The pipeline of main(): tokenize, Parser(tokens), parse().               *)

Init ==
    /\ code \in CodeInputs
    /\ tokens = <<>>
    /\ ptokens = <<>>
    /\ pos = 0
    /\ errors = <<>>
    /\ result = FALSE
    /\ before = <<>>
    /\ last = "input"

Tokenize ==
    /\ last = "input"
    /\ tokens' = tokenize(code)
    /\ last' = "tokenize"
    /\ UNCHANGED <<code, ptokens, pos, errors, result, before>>

NewParser ==
    /\ last = "tokenize"
    /\ ptokens' = FilterComments(tokens)
    /\ pos' = 0
    /\ errors' = <<>>
    /\ last' = "Parser"
    /\ UNCHANGED <<code, tokens, result, before>>

HasParser == last \in {"Parser", "consume", "parse"}

Parse ==
    /\ HasParser
    /\ before' = errors
    /\ errors' = parse_errors(ptokens)
    /\ result' = (Len(errors') = 0)
    /\ last' = "parse"
    /\ UNCHANGED <<code, tokens, ptokens, pos>>

Consume(expected_type) ==
    /\ HasParser
    /\ IF pos < Len(ptokens)
       THEN IF expected_type # "None" /\ ptokens[pos + 1].type # expected_type
            THEN /\ Len(errors) < MaxErrors
                 /\ errors' = Append(errors, ExpectedError(expected_type, ptokens[pos + 1]))
                 /\ pos' = pos
            ELSE /\ pos' = pos + 1
                 /\ errors' = errors
       ELSE UNCHANGED <<pos, errors>>
    /\ last' = "consume"
    /\ UNCHANGED <<code, tokens, ptokens, result, before>>

Next == Tokenize \/ NewParser \/ Parse

Spec == Init /\ [][Next]_vars

(* A Parser built on any list of tokens (the state after Parser.__init__). *)
ParserOn(inputs) ==
    /\ code = <<>>
    /\ tokens \in inputs
    /\ ptokens = FilterComments(tokens)
    /\ pos = 0
    /\ errors = <<>>
    /\ result = FALSE
    /\ before = <<>>
    /\ last = "Parser"

(* The Parser used through consume and parse, in any order. *)
InitParser == ParserOn(ParserInputs)

NextParser == Parse \/ \E expected_type \in ExpectedTypes : Consume(expected_type)

SpecParser == InitParser /\ [][NextParser]_vars

(* parse() as the validator of a list of tokens. *)
InitValidate == ParserOn(TokenInputs)

NextValidate == Parse

SpecValidate == InitValidate /\ [][NextValidate]_vars

----------------------------------------------------------------------------
(* Vocabulary of the properties, stated without the operators of the scan.  *)

DelimKinds ==
    {"Unmatched closing delimiter", "Mismatched delimiters", "Unclosed delimiter"}

Family(type) ==
    CASE type \in {"LPAREN", "RPAREN"}     -> "paren"
      [] type \in {"LBRACE", "RBRACE"}     -> "brace"
      [] type \in {"LBRACKET", "RBRACKET"} -> "bracket"
      [] OTHER                             -> "none"

IsOpening(type) == type \in {"LPAREN", "LBRACE", "LBRACKET"}

IsClosing(type) == type \in {"RPAREN", "RBRACE", "RBRACKET"}

(* the diagnostics of errs whose kind is in K, in order *)
RECURSIVE SelectKinds(_, _)
SelectKinds(errs, K) ==
    IF errs = <<>> THEN <<>>
    ELSE (IF Head(errs).kind \in K THEN <<Head(errs)>> ELSE <<>>)
         \o SelectKinds(Tail(errs), K)

(* the types of the delimiter tokens of ts, in order *)
RECURSIVE DelimTypes(_)
DelimTypes(ts) ==
    IF ts = <<>> THEN <<>>
    ELSE (IF Family(Head(ts).type) # "none" THEN <<Head(ts).type>> ELSE <<>>)
         \o DelimTypes(Tail(ts))

(* the grammar  W ::= empty | open W close W,  open and close of one family *)
RECURSIVE WellNested(_)
WellNested(ds) ==
    \/ ds = <<>>
    \/ /\ ds # <<>>
       /\ IsOpening(ds[1])
       /\ \E k \in 2..Len(ds) :
            /\ IsClosing(ds[k])
            /\ Family(ds[k]) = Family(ds[1])
            /\ WellNested(SubSeq(ds, 2, k - 1))
            /\ WellNested(SubSeq(ds, k + 1, Len(ds)))

CountTypes(ts, a, b, S) == Cardinality({ k \in a..b : ts[k].type \in S })

(* the opener at i is never closed: after it, no prefix holds more closers *)
(* than openers                                                            *)
StaysOpen(ts, i) ==
    /\ IsOpening(ts[i].type)
    /\ \A j \in (i + 1)..Len(ts) :
         CountTypes(ts, i + 1, j, {"RPAREN", "RBRACE", "RBRACKET"})
            <= CountTypes(ts, i + 1, j, {"LPAREN", "LBRACE", "LBRACKET"})

RECURSIVE ExpectedUnclosed(_, _)
ExpectedUnclosed(ts, i) ==
    IF i > Len(ts) THEN <<>>
    ELSE (IF StaysOpen(ts, i)
          THEN << [kind |-> "Unclosed delimiter", value |-> ts[i].value,
                   line |-> ts[i].line] >>
          ELSE <<>>)
         \o ExpectedUnclosed(ts, i + 1)

(* ts holds one opening brace, no closing brace, and every other delimiter *)
(* is matched, as in  int main() {                                         *)
OnlyBraceOpen(ts, i) ==
    /\ ts[i].type = "LBRACE"
    /\ CountTypes(ts, 1, Len(ts), {"LBRACE"}) = 1
    /\ CountTypes(ts, 1, Len(ts), {"RBRACE"}) = 0
    /\ WellNested(DelimTypes(SubSeq(ts, 1, i - 1)))
    /\ WellNested(DelimTypes(SubSeq(ts, i + 1, Len(ts))))

(* the first semicolon or brace after index i, 0 when there is none *)
StopIndex(ts, i) ==
    LET S == { j \in (i + 1)..Len(ts) :
                 ts[j].type \in {"SEMICOLON", "LBRACE", "RBRACE"} }
    IN  IF S = {} THEN 0 ELSE Min(S)

IsJumpKeyword(token) ==
    /\ token.type = "KEYWORD"
    /\ token.value \in { <<"r","e","t","u","r","n">>, <<"b","r","e","a","k">>,
                         <<"c","o","n","t","i","n","u","e">> }

EveryJumpStops(ts) ==
    \A i \in 1..Len(ts) : IsJumpKeyword(ts[i]) => StopIndex(ts, i) # 0

(* one missing-semicolon diagnostic for each jump keyword whose scan stops *)
(* at a token whose type is in D                                           *)
RECURSIVE ExpectedMissing(_, _, _)
ExpectedMissing(ts, i, D) ==
    IF i > Len(ts) THEN <<>>
    ELSE (IF /\ IsJumpKeyword(ts[i])
             /\ StopIndex(ts, i) # 0
             /\ ts[StopIndex(ts, i)].type \in D
          THEN << [kind |-> "Missing semicolon", value |-> ts[i].value,
                   line |-> ts[i].line] >>
          ELSE <<>>)
         \o ExpectedMissing(ts, i + 1, D)

(* line and column (both 1-based) of the p-th character of text *)
LineOf(text, p) == 1 + Cardinality({ q \in 1..(p - 1) : text[q] = "\n" })

ColOf(text, p) == p - Max({0} \cup { q \in 1..(p - 1) : text[q] = "\n" })

Covers(text, t, p) ==
    /\ t.line = LineOf(text, p)
    /\ t.col <= ColOf(text, p)
    /\ ColOf(text, p) < t.col + Len(t.value)

(* text is one block comment: slash-star up to the first star-slash, its end *)
IsBlockComment(text) ==
    LET ends == { k \in 3..(Len(text) - 1) : text[k] = "*" /\ text[k + 1] = "/" }
    IN  /\ Len(text) >= 4
        /\ text[1] = "/" /\ text[2] = "*"
        /\ ends # {}
        /\ Min(ends) = Len(text) - 1

UnknownTokens(ts) ==
    { k \in 1..Len(ts) : ts[k].type = "UNKNOWN" }

RECURSIVE SelectType(_, _)
SelectType(ts, type) ==
    IF ts = <<>> THEN <<>>
    ELSE (IF Head(ts).type = type THEN <<Head(ts)>> ELSE <<>>)
         \o SelectType(Tail(ts), type)

----------------------------------------------------------------------------
(* Properties.                                                              *)

(* C1: when parse() returns, it returns True exactly when Parser.errors is  *)
(* empty; the list is rebuilt on each call: it holds no diagnostic of       *)
(* consume() and nothing of an earlier call, so at most one diagnostic for  *)
(* each token (SpecParser).                                                 *)
C1_VerdictIffNoDiagnostics ==
    last = "parse" =>
        /\ result = (errors = <<>>)
        /\ \A i \in 1..Len(errors) : errors[i].kind # "Expected"
        /\ Len(errors) <= Len(ptokens)

C1_Witness ==
    /\ last = "parse"
    /\ \E i \in 1..Len(before) : before[i].kind = "Expected"
    /\ result = TRUE
    /\ errors = <<>>

(* C2: when the delimiter tokens of the sequence are well nested, whatever  *)
(* other tokens lie between them, check_balanced_delimiters adds no         *)
(* diagnostic: none of Unmatched, Mismatched, Unclosed (SpecValidate).      *)
C2_WellNestedNoDelimiterDiagnostic ==
    (last = "parse" /\ WellNested(DelimTypes(ptokens))) =>
        /\ SelectKinds(errors, DelimKinds) = <<>>
        /\ check_balanced_delimiters(ptokens) = <<>>

C2_Witness ==
    /\ last = "parse"
    /\ Len(ptokens) >= 3
    /\ IsOpening(ptokens[1].type)
    /\ Family(ptokens[2].type) = "none"
    /\ IsClosing(ptokens[3].type)
    /\ WellNested(DelimTypes(ptokens))
    /\ SelectKinds(errors, DelimKinds) = <<>>

(* C3: the Unclosed diagnostics are exactly one for each opener that is     *)
(* never closed, oldest first, and they follow the other delimiter          *)
(* diagnostics; with one opening brace as the only delimiter left open,     *)
(* there is exactly one, and it names the brace (SpecValidate).             *)
C3_UnclosedOldestFirst ==
    last = "parse" =>
        LET delim    == SelectKinds(errors, DelimKinds)
            unclosed == SelectKinds(errors, {"Unclosed delimiter"})
        IN  /\ unclosed = ExpectedUnclosed(ptokens, 1)
            /\ SubSeq(delim, Len(delim) - Len(unclosed) + 1, Len(delim)) = unclosed
            /\ \A i \in 1..Len(ptokens) :
                 OnlyBraceOpen(ptokens, i) =>
                    unclosed = << [kind |-> "Unclosed delimiter", value |-> <<"{">>,
                                   line |-> ptokens[i].line] >>

C3_Witness ==
    /\ last = "parse"
    /\ Len(ExpectedUnclosed(ptokens, 1)) >= 2
    /\ ExpectedUnclosed(ptokens, 1)[1].value # ExpectedUnclosed(ptokens, 1)[2].value
    /\ Len(SelectKinds(errors, DelimKinds)) > Len(ExpectedUnclosed(ptokens, 1))
    /\ SelectKinds(errors, {"Unclosed delimiter"}) = ExpectedUnclosed(ptokens, 1)

(* C4: at a closing delimiter, a non-empty stack loses exactly its top, and *)
(* a Mismatched diagnostic naming the opener and the closer is added        *)
(* exactly when their families differ; an empty stack stays empty and one   *)
(* Unmatched diagnostic is added.  So one '(' closed by ']', with no other  *)
(* delimiter, gives the one mismatch diagnostic and no other delimiter      *)
(* diagnostic (SpecValidate).                                               *)
C4_CloserPopsOne ==
    last = "parse" =>
        /\ \A n \in 1..Len(ptokens) :
             LET t   == ptokens[n]
                 s0  == DelimScan(ptokens, n - 1)
                 s1  == DelimScan(ptokens, n)
                 top == s0.stack[Len(s0.stack)]
             IN  IsClosing(t.type) =>
                   IF s0.stack # <<>>
                   THEN /\ s1.stack = SubSeq(s0.stack, 1, Len(s0.stack) - 1)
                        /\ s1.errs =
                             IF Family(top.type) # Family(t.type)
                             THEN Append(s0.errs,
                                    [kind |-> "Mismatched delimiters",
                                     open_value |-> top.value, open_line |-> top.line,
                                     value |-> t.value, line |-> t.line])
                             ELSE s0.errs
                   ELSE /\ s1.stack = <<>>
                        /\ s1.errs =
                             Append(s0.errs,
                                    [kind |-> "Unmatched closing delimiter",
                                     value |-> t.value, line |-> t.line])
        /\ DelimTypes(ptokens) = <<"LPAREN", "RBRACKET">> =>
             \E i, j \in 1..Len(ptokens) :
                /\ ptokens[i].type = "LPAREN"
                /\ ptokens[j].type = "RBRACKET"
                /\ SelectKinds(errors, DelimKinds) =
                     << [kind |-> "Mismatched delimiters",
                         open_value |-> <<"(">>, open_line |-> ptokens[i].line,
                         value |-> <<"]">>, line |-> ptokens[j].line] >>

C4_Witness ==
    /\ last = "parse"
    /\ DelimTypes(ptokens) = <<"LPAREN", "RBRACKET">>
    /\ Len(ptokens) >= 3
    /\ Len(SelectKinds(errors, {"Mismatched delimiters"})) = 1
    /\ Len(SelectKinds(errors, DelimKinds)) = 1

C6_DiagnosticAtEndOfInput ==
    last = "parse" =>
        \A i \in 1..Len(ptokens) :
            ( /\ IsJumpKeyword(ptokens[i])
              /\ i < Len(ptokens)
              /\ StopIndex(ptokens, i) = 0 )
            => \E k \in 1..Len(errors) :
                  errors[k] = [kind |-> "Missing semicolon",
                               value |-> ptokens[i].value, line |-> ptokens[i].line]

(* C7: tokenize drops no character: every character that is not whitespace *)
(* lies in exactly one token; each token's text is the text of its line     *)
(* from its column on; tokens follow each other without overlap (Spec).     *)
C7_NoCharacterDropped ==
    last # "input" =>
        /\ \A p \in 1..Len(code) :
             ~IsSpace(code[p]) =>
                Cardinality({ k \in 1..Len(tokens) : Covers(code, tokens[k], p) }) = 1
        /\ \A k \in 1..Len(tokens) :
             /\ Len(tokens[k].value) >= 1
             /\ \A m \in 1..Len(tokens[k].value) :
                  \E p \in 1..Len(code) :
                     /\ LineOf(code, p) = tokens[k].line
                     /\ ColOf(code, p) = tokens[k].col + m - 1
                     /\ code[p] = tokens[k].value[m]
        /\ \A k \in 1..(Len(tokens) - 1) :
             \/ tokens[k].line < tokens[k + 1].line
             \/ /\ tokens[k].line = tokens[k + 1].line
                /\ tokens[k].col + Len(tokens[k].value) <= tokens[k + 1].col

C7_Witness ==
    /\ last = "tokenize"
    /\ \E k \in 1..Len(tokens) : tokens[k].type = "UNKNOWN"
    /\ \E k \in 1..Len(tokens) : Len(tokens[k].value) >= 2 /\ tokens[k].line = 2
    /\ \E p \in 1..Len(code) : IsSpace(code[p])

(* C8: a block comment, from slash-star to the first star-slash after it,   *)
(* is one COMMENT token also when it spans lines; its newlines count in the *)
(* lines of later tokens; nothing inside it reaches the Parser (Spec).      *)
C8_BlockCommentOneToken ==
    \A n \in 1..Len(code) :
        (last # "input" /\ IsBlockComment(SubSeq(code, 1, n))) =>
            /\ tokens # <<>>
            /\ tokens[1] = Token("COMMENT", SubSeq(code, 1, n), 1, 1)
            /\ \A k \in 2..Len(tokens) : tokens[k].line >= LineOf(code, n)
            /\ (last = "parse" /\ n = Len(code)) => (ptokens = <<>> /\ errors = <<>>)

(* C9: a character no pattern matches becomes an UNKNOWN token of that one  *)
(* character with its 1-based line and column; parse() reports each UNKNOWN *)
(* token once, naming character, line and column, in source order and       *)
(* before every other diagnostic (Spec).                                    *)
C9_UnknownSurfaced ==
    /\ last # "input" =>
         /\ \A k \in UnknownTokens(tokens) :
              /\ Len(tokens[k].value) = 1
              /\ \E p \in 1..Len(code) :
                   /\ LineOf(code, p) = tokens[k].line
                   /\ ColOf(code, p) = tokens[k].col
                   /\ code[p] = tokens[k].value[1]
         /\ (\A q \in 1..Len(code) : code[q] \notin {"/", "#", "\"", "'"}) =>
              \A p \in 1..Len(code) :
                 code[p] = "@" =>
                    \E k \in UnknownTokens(tokens) :
                       tokens[k] = Token("UNKNOWN", <<"@">>, LineOf(code, p), ColOf(code, p))
    /\ last = "parse" =>
         LET us == SelectType(tokens, "UNKNOWN")
         IN  /\ Len(errors) >= Len(us)
             /\ \A i \in 1..Len(us) :
                  errors[i] = [kind |-> "Unknown token", value |-> us[i].value,
                               line |-> us[i].line, col |-> us[i].col]
             /\ \A i \in (Len(us) + 1)..Len(errors) : errors[i].kind # "Unknown token"

C9_Witness ==
    /\ last = "parse"
    /\ Cardinality(UnknownTokens(tokens)) >= 2
    /\ \E k \in UnknownTokens(tokens) : tokens[k].line = 2
    /\ \E k \in UnknownTokens(tokens) : tokens[k].col = 2
    /\ Len(errors) > Cardinality(UnknownTokens(tokens))

(* C10: the text of every OPERATOR token is an operator of Lexer.operators, *)
(* so two operator characters that form no known operator are two tokens    *)
(* (Spec).                                                                  *)
C10_OperatorInVocabulary ==
    last # "input" =>
        \A k \in 1..Len(tokens) :
            tokens[k].type = "OPERATOR" => tokens[k].value \in operators

=============================================================================
